---- MODULE Spec2Model ----
(***************************************************************************)
(* PharmaDesk inventory import (smart-qr-health, backend/app/routers/      *)
(* pharmadesk.py): the CSV row normalizer, the catalog reconciliation      *)
(* _apply_import_sync_to_csv, the preview/confirm workflow with its        *)
(* process-wide token cache, inventory_sync and post_dispense.             *)
(*                                                                         *)
(* Text values (names, headers, cells) are tuples of one-character         *)
(* strings, so that strip() and lower() are computed, not assumed.         *)
(***************************************************************************)
EXTENDS Integers, Sequences, FiniteSets, TLC

VARIABLES
    medicines,       \* committed rows of table "medicines", in id order
    med_seq,         \* last id handed out by the medicines primary key sequence
    dispenses,       \* committed rows of table "dispenses", in id order
    patient_status,  \* Patient.status of the one patient of the model
    cache,           \* IMPORT_PREVIEW_CACHE: token -> entry
    tok_seq,         \* number of tokens issued so far (uuid4 values are fresh)
    now,             \* _now(), in minutes
    nreq,            \* number of requests handled so far
    last,            \* the last handled request and its response
    pc,              \* per request thread: position inside import_confirm
    loc,             \* per request thread: locals of import_confirm
    file,            \* the CSV file at hand, where one file is followed
    otp_store,       \* per portal: the OTPs sent and not yet used, by key
    doctors,         \* the doctors table
    prescriptions    \* the prescriptions table: the id of the doctor of each row

vars == <<medicines, med_seq, dispenses, patient_status, cache, tok_seq, now,
          nreq, last, pc, loc, file, otp_store, doctors, prescriptions>>

-----------------------------------------------------------------------------
(* Bounds of the model *)

MaxRows == 2        \* rows per uploaded file
MaxInitMeds == 2    \* catalog entries in a drawn starting catalog
MaxMedId == 4       \* ids the medicines sequence may hand out
MaxRequests == 3    \* requests per behaviour of the workflow
MaxApplies == 2     \* consecutive imports on a drawn catalog
MaxNormalized == 2  \* sendings of the one file at hand
MaxLines == 2       \* entries of the JSON list of a bill
MaxBills == 2       \* consecutive bills on a drawn catalog
MaxHistory == 2     \* Dispense rows of a drawn history
MaxSyncs == 2       \* consecutive calls of inventory_sync
InitStock == 4      \* stock of the medicines of a drawn catalog
MaxOtpRequests == 3 \* requests to the OTP routes
MaxOtpNow == 6      \* minutes on the clock of the OTP routes
MaxDoctors == 2     \* rows of the doctors table
MaxDoctorRequests == 5  \* requests to the doctor and admin routes
MaxTokens == 2      \* preview tokens per behaviour
MaxNow == 90        \* last minute of the clock

(* Program constants *)
IMPORT_PREVIEW_TTL_MINUTES == 45

\* time.time() + 300, time.time() + 5 * 60: the validity of an OTP, in minutes
OtpValidity == 5

-----------------------------------------------------------------------------
(* Text: str.strip(), str.lower() *)

None == <<"<None>">>

\* the element of a one-element set; {e(v) : v \in {x}} computes x once
The(S) == CHOOSE v \in S : TRUE

IsSpace(c) == c = " "

Lower(c) ==
    CASE c = "A" -> "a" [] c = "B" -> "b" [] c = "D" -> "d" [] c = "E" -> "e"
      [] c = "I" -> "i" [] c = "M" -> "m" [] c = "N" -> "n" [] c = "O" -> "o"
      [] c = "Q" -> "q" [] c = "R" -> "r" [] c = "S" -> "s" [] c = "T" -> "t"
      [] c = "Y" -> "y" [] OTHER -> c

lower(s) == [i \in 1..Len(s) |-> Lower(s[i])]

strip(s) ==
    LET idx == {i \in 1..Len(s) : ~IsSpace(s[i])}
    IN IF idx = {} THEN <<>>
       ELSE LET lo == CHOOSE i \in idx : \A j \in idx : i <= j
                hi == CHOOSE i \in idx : \A j \in idx : j <= i
            IN SubSeq(s, lo, hi)

\* (s or "").strip().lower()
_norm(h) == lower(strip(IF h = None THEN <<>> ELSE h))

_lc(s) == lower(strip(IF s = None THEN <<>> ELSE s))

-----------------------------------------------------------------------------
(* int(float(val)): an optional sign, digits, an optional fraction; anything *)
(* else raises ValueError.  The cells of the model use no exponent, "inf",   *)
(* "nan" or "_".                                                             *)

Digits == <<"0", "1", "2", "3", "4", "5", "6", "7", "8", "9">>

IsDigit(c) == \E i \in 1..Len(Digits) : Digits[i] = c

DigitVal(c) == (CHOOSE i \in 1..Len(Digits) : Digits[i] = c) - 1

AllDigits(s) == \A i \in 1..Len(s) : IsDigit(s[i])

NatVal(s) ==
    LET F[i \in 0..Len(s)] == IF i = 0 THEN 0 ELSE 10 * F[i - 1] + DigitVal(s[i])
    IN F[Len(s)]

Unsigned(s) == IF s # <<>> /\ s[1] \in {"-", "+"} THEN Tail(s) ELSE s

DotAt(s) ==
    IF \E i \in 1..Len(s) : s[i] = "."
    THEN CHOOSE i \in 1..Len(s) : s[i] = "." /\ \A j \in 1..(i - 1) : s[j] # "."
    ELSE Len(s) + 1

IntPart(s) == SubSeq(Unsigned(s), 1, DotAt(Unsigned(s)) - 1)

FracPart(s) == SubSeq(Unsigned(s), DotAt(Unsigned(s)) + 1, Len(Unsigned(s)))

IsFloatLiteral(s) ==
    /\ AllDigits(IntPart(s))
    /\ AllDigits(FracPart(s))
    /\ Len(IntPart(s)) + Len(FracPart(s)) > 0

\* a variant: a decimal value is rounded to the nearest integer
int_float_rounded(val) ==
    IF val = <<>> THEN 0
    ELSE IF ~IsFloatLiteral(val) THEN 0
    ELSE The({IF val[1] = "-" THEN 0 - n ELSE n :
                n \in {NatVal(IntPart(val)) +
                        (IF FracPart(val) # <<>> /\ DigitVal(FracPart(val)[1]) >= 5
                         THEN 1 ELSE 0)}})

\* int(float(val)) if val else 0, and 0 again when the conversion raises
int_float(val) ==
    IF val = <<>> THEN 0
    ELSE IF ~IsFloatLiteral(val) THEN 0
    ELSE IF val[1] = "-" THEN 0 - NatVal(IntPart(val))
    ELSE NatVal(IntPart(val))

-----------------------------------------------------------------------------
(* _MEDICINE_FIELD_MAP, for the columns of the model: name, strength,       *)
(* stock_qty, reorder_level.                                                *)

H_name == <<"n", "a", "m", "e">>
H_medicine == <<"m", "e", "d", "i", "c", "i", "n", "e">>
H_drugname == <<"d", "r", "u", "g", "n", "a", "m", "e">>
H_strength == <<"s", "t", "r", "e", "n", "g", "t", "h">>
H_qty == <<"q", "t", "y">>
H_quantity == <<"q", "u", "a", "n", "t", "i", "t", "y">>
H_stock == <<"s", "t", "o", "c", "k">>
H_stock_qty == <<"s", "t", "o", "c", "k", "_", "q", "t", "y">>
H_reorder == <<"r", "e", "o", "r", "d", "e", "r">>
H_reorder_level == <<"r", "e", "o", "r", "d", "e", "r", "_", "l", "e", "v", "e", "l">>
H_reorder_lev == <<"r", "e", "o", "r", "d", "e", "r", "_", "l", "e", "v">>

_MEDICINE_FIELD_MAP ==
    << <<H_name, "name">>, <<H_medicine, "name">>, <<H_drugname, "name">>,
       <<H_strength, "strength">>,
       <<H_qty, "stock_qty">>, <<H_quantity, "stock_qty">>,
       <<H_stock, "stock_qty">>, <<H_stock_qty, "stock_qty">>,
       <<H_reorder, "reorder_level">>, <<H_reorder_level, "reorder_level">>,
       <<H_reorder_lev, "reorder_level">> >>

InFieldMap(k) == \E i \in 1..Len(_MEDICINE_FIELD_MAP) : _MEDICINE_FIELD_MAP[i][1] = k

FieldOf(k) ==
    _MEDICINE_FIELD_MAP[CHOOSE i \in 1..Len(_MEDICINE_FIELD_MAP) :
                            _MEDICINE_FIELD_MAP[i][1] = k][2]

\* row.get(key): a CSV row is the sequence of its <<header, cell>> pairs
RowGet(row, key) ==
    IF \E i \in 1..Len(row) : row[i][1] = key
    THEN row[CHOOSE i \in 1..Len(row) : row[i][1] = key][2]
    ELSE <<>>

\* the value _row_to_payload stores for one cell
CellValue(field, v) ==
    IF field \in {"stock_qty", "reorder_level"} THEN int_float(strip(v))
    ELSE strip(v)

\* a payload is a function from the fields it carries to their values
_row_to_payload(row) ==
    LET Cell(p, k, v) ==
            IF ~InFieldMap(k) THEN p
            ELSE The({(field :> CellValue(field, v)) @@ p : field \in {FieldOf(k)}})
        F[i \in 0..Len(row)] ==
            IF i = 0 THEN <<>>
            ELSE The({Cell(p, k, row[i][2]) : p \in {F[i - 1]}, k \in {_norm(row[i][1])}})
        fallback ==
            IF RowGet(row, H_name) # <<>> THEN RowGet(row, H_name)
            ELSE IF RowGet(row, H_medicine) # <<>> THEN RowGet(row, H_medicine)
            ELSE RowGet(row, H_drugname)
    IN The({IF "name" \in DOMAIN p /\ p["name"] # <<>> THEN p
            ELSE ("name" :> fallback) @@ p : p \in {F[Len(row)]}})

\* the list csv.DictReader stores, under the key None, for the cells of a row
\* beyond the header
Rest == <<"<list>">>

\* any((v or "").strip() for v in r.values()) reaches the list of the extra
\* cells, every cell before it blank: list has no strip, AttributeError
RowRaises(row) ==
    \E i \in 1..Len(row) :
        /\ row[i][2] = Rest
        /\ \A j \in 1..(i - 1) : strip(row[j][2]) = <<>>

\* [_row_to_payload(r) for r in rows if any((v or "").strip() for v in r.values())]
RowHasData(row) == \E i \in 1..Len(row) : strip(row[i][2]) # <<>>

\* the comprehension raises when it comes to a row on which the filter raises
ParseRaises(rows) == \E i \in 1..Len(rows) : RowRaises(rows[i])

ParseUpload(rows) ==
    The({[i \in 1..Len(kept) |-> _row_to_payload(kept[i])] :
            kept \in {SelectSeq(rows, RowHasData)}})

-----------------------------------------------------------------------------
(* models/medicine.py, models/dispense.py *)

Fields == {"name", "strength", "stock_qty", "reorder_level"}

\* Medicine(**payload): stock_qty and reorder_level default to 0, strength is nullable
Medicine(id, payload) ==
    [id |-> id,
     name |-> payload["name"],
     strength |-> IF "strength" \in DOMAIN payload THEN payload["strength"] ELSE None,
     stock_qty |-> IF "stock_qty" \in DOMAIN payload THEN payload["stock_qty"] ELSE 0,
     reorder_level |-> IF "reorder_level" \in DOMAIN payload
                       THEN payload["reorder_level"] ELSE 0]

\* a Dispense row; medicine_id 0 is NULL, items is items_json
Dispense(medicine_id, qty, items) ==
    [medicine_id |-> medicine_id, qty |-> qty, items |-> items]

IdsOf(meds) == {meds[i].id : i \in 1..Len(meds)}

\* db.query(Dispense.medicine_id).filter(Dispense.medicine_id.in_(ids)).distinct()
ReferencedIds(disp, ids) == {disp[i].medicine_id : i \in 1..Len(disp)} \cap ids

-----------------------------------------------------------------------------
(* _apply_import_sync_to_csv *)

IndexOf(seq, x) ==
    IF \E i \in 1..Len(seq) : seq[i] = x
    THEN CHOOSE i \in 1..Len(seq) : seq[i] = x
    ELSE 0

\* a variant: a row whose name was seen before gets a key of its own
new_by_name_appending(rows) ==
    LET Put(prev, p, nm) ==
            IF nm = <<>> THEN [prev EXCEPT !.skipped = @ + 1]
            ELSE [prev EXCEPT !.keys = Append(@, nm), !.vals = Append(@, p)]
        F[i \in 0..Len(rows)] ==
            IF i = 0 THEN [keys |-> <<>>, vals |-> <<>>, skipped |-> 0]
            ELSE The({Put(prev, rows[i], nm) :
                        prev \in {F[i - 1]}, nm \in {_lc(rows[i]["name"])}})
    IN F[Len(rows)]

\* a variant: the first row of a name stays in the index
new_by_name_first(rows) ==
    LET Put(prev, p, nm, at) ==
            IF nm = <<>> THEN [prev EXCEPT !.skipped = @ + 1]
            ELSE IF at # 0 THEN prev
            ELSE [prev EXCEPT !.keys = Append(@, nm), !.vals = Append(@, p)]
        F[i \in 0..Len(rows)] ==
            IF i = 0 THEN [keys |-> <<>>, vals |-> <<>>, skipped |-> 0]
            ELSE The({Put(prev, rows[i], nm, IndexOf(prev.keys, nm)) :
                        prev \in {F[i - 1]}, nm \in {_lc(rows[i]["name"])}})
    IN F[Len(rows)]

\* new_by_name: keys in order of first insertion, each with the payload of the
\* last row of that name; rows with an empty name are counted in skipped
new_by_name(rows) ==
    LET Put(prev, p, nm, at) ==
            IF nm = <<>> THEN [prev EXCEPT !.skipped = @ + 1]
            ELSE IF at # 0 THEN [prev EXCEPT !.vals[at] = p]
            ELSE [prev EXCEPT !.keys = Append(@, nm), !.vals = Append(@, p)]
        F[i \in 0..Len(rows)] ==
            IF i = 0 THEN [keys |-> <<>>, vals |-> <<>>, skipped |-> 0]
            ELSE The({Put(prev, rows[i], nm, IndexOf(prev.keys, nm)) :
                        prev \in {F[i - 1]}, nm \in {_lc(rows[i]["name"])}})
    IN F[Len(rows)]

\* a variant: the lookup compares the stored name as it is, case included
existing_by_name_exact(meds, nm) ==
    LET hits == {i \in 1..Len(meds) : strip(meds[i].name) = nm}
    IN IF hits = {} THEN 0 ELSE CHOOSE i \in hits : \A j \in hits : j <= i

\* existing_by_name.get(nm): the position of the last row of that lower-cased
\* name in db.query(Medicine).all() (read in id order), 0 when there is none
existing_by_name(meds, nm) ==
    LET hits == {i \in 1..Len(meds) : _lc(meds[i].name) = nm}
    IN IF hits = {} THEN 0 ELSE CHOOSE i \in hits : \A j \in hits : j <= i

\* to_consider_delete: the values of existing_by_name whose key is not in new_names
to_consider_delete(meds, new_names) ==
    {i \in 1..Len(meds) :
        /\ existing_by_name(meds, _lc(meds[i].name)) = i
        /\ \A k \in 1..Len(new_names) : new_names[k] # _lc(meds[i].name)}

\* a variant: the history check finds nothing
KeptDueToHistory_unchecked(m, referenced_ids) == FALSE

\* the history check of the deletion phase: is this entry kept?
KeptDueToHistory(m, referenced_ids) == m.id \in referenced_ids

\* a variant: the deletion phase runs whatever replace_all says
DeletePhase_always(meds, disp, new_names, replace_all) ==
    LET cand == to_consider_delete(meds, new_names)
        referenced_ids == ReferencedIds(disp, {meds[i].id : i \in cand})
    IN {i \in cand : ~(meds[i].id \in referenced_ids)}

\* positions deleted by the deletion phase
DeletePhase(meds, disp, new_names, replace_all) ==
    IF ~replace_all THEN {}
    ELSE LET cand == to_consider_delete(meds, new_names)
             referenced_ids == ReferencedIds(disp, {meds[i].id : i \in cand})
         IN {i \in cand : ~KeptDueToHistory(meds[i], referenced_ids)}

\* a variant: the entry is rebuilt from the payload under its id
SetAttrs_rebuilt(m, payload) == Medicine(m.id, payload)

\* for k, v in payload.items(): setattr(existing_obj, k, v)
SetAttrs(m, payload) ==
    [f \in DOMAIN m |-> IF f \in DOMAIN payload THEN payload[f] ELSE m[f]]

\* a variant: the upsert loop looks the name up with its case
UpsertPhase_cased(meds, seq, idx) ==
    LET Upsert(prev, payload, at) ==
            IF at # 0
            THEN [prev EXCEPT !.meds[at] = SetAttrs(@, payload), !.updated = @ + 1]
            ELSE [prev EXCEPT
                    !.added = Append(@, Medicine(seq + prev.created + 1, payload)),
                    !.created = @ + 1]
        F[k \in 0..Len(idx.keys)] ==
            IF k = 0 THEN [meds |-> meds, added |-> <<>>, created |-> 0, updated |-> 0]
            ELSE The({Upsert(prev, idx.vals[k], at) :
                        prev \in {F[k - 1]},
                        at \in {existing_by_name_exact(meds, idx.keys[k])}})
    IN F[Len(idx.keys)]

\* the upsert loop over new_by_name.items(), on the rows read before the deletion
\* phase; new rows get their ids from the sequence at the final flush
UpsertPhase(meds, seq, idx) ==
    LET Upsert(prev, payload, at) ==
            IF at # 0
            THEN [prev EXCEPT !.meds[at] = SetAttrs(@, payload), !.updated = @ + 1]
            ELSE [prev EXCEPT
                    !.added = Append(@, Medicine(seq + prev.created + 1, payload)),
                    !.created = @ + 1]
        F[k \in 0..Len(idx.keys)] ==
            IF k = 0 THEN [meds |-> meds, added |-> <<>>, created |-> 0, updated |-> 0]
            ELSE The({Upsert(prev, idx.vals[k], at) :
                        prev \in {F[k - 1]},
                        at \in {existing_by_name(meds, idx.keys[k])}})
    IN F[Len(idx.keys)]

RemoveAt(seq, gone) ==
    LET keep == {i \in 1..Len(seq) : i \notin gone}
        F[i \in 0..Len(seq)] ==
            IF i = 0 THEN <<>>
            ELSE IF i \in keep THEN Append(F[i - 1], seq[i]) ELSE F[i - 1]
    IN F[Len(seq)]

\* a variant: the summary reports the creations as updates and the updates
\* as creations
Summary_swapped(created, updated, skipped, deleted, kept, total, replace_all) ==
    [created |-> updated, updated |-> created, skipped |-> skipped,
     deleted |-> deleted, kept_due_to_history |-> kept, total |-> total,
     replaced_all |-> IF replace_all THEN 1 ELSE 0]

Summary(created, updated, skipped, deleted, kept, total, replace_all) ==
    [created |-> created, updated |-> updated, skipped |-> skipped,
     deleted |-> deleted, kept_due_to_history |-> kept, total |-> total,
     replaced_all |-> IF replace_all THEN 1 ELSE 0]

\* the session after the call: the rows with the pending deletes, updates and
\* inserts applied, the sequence value, and the returned summary
_apply_import_sync_to_csv(meds, disp, seq, rows, replace_all) ==
    LET Result(idx, cand, gone, up) ==
            [after_delete |-> RemoveAt(meds, gone),
             delete_flush |-> cand # {},
             work |-> RemoveAt(up.meds, gone) \o up.added,
             seq |-> seq + up.created,
             summary |-> Summary(up.created, up.updated, idx.skipped, Cardinality(gone),
                                 Cardinality(cand \ gone), Len(rows), replace_all)]
        Phases(idx) ==
            The({Result(idx, cand, gone, up) :
                    cand \in {IF replace_all THEN to_consider_delete(meds, idx.keys) ELSE {}},
                    gone \in {DeletePhase(meds, disp, idx.keys, replace_all)},
                    up \in {UpsertPhase(meds, seq, idx)}})
    IN The({Phases(idx) : idx \in {new_by_name(rows)}})

-----------------------------------------------------------------------------
(* The transaction around the apply: try / commit / except rollback *)

NoSummary == Summary(0, 0, 0, 0, 0, 0, FALSE)

\* where a persistence error may strike: the flush that ends the deletion
\* phase (run only when there are candidates), the final flush, the commit
FailPoints(r) ==
    {"none", "upsert_flush", "commit"} \cup
    (IF r.delete_flush THEN {"delete_flush"} ELSE {})

\* what the session holds when the error strikes
WorkAt(r, fail) == IF fail = "delete_flush" THEN r.after_delete ELSE r.work

\* a variant: the session's changes survive the error
rollback_none(committed, work) == work

\* db.rollback(): the committed rows stay, the session's changes are dropped
rollback(committed, work) == committed

\* the committed table, the sequence, the status and the summary after
\* summary = _apply_import_sync_to_csv(db, rows, replace_all); db.commit()
\* with except: db.rollback(); raise.  A sequence value drawn by a flushed
\* insert is not given back by a rollback.
ImportTxn(meds, disp, seq, rows, replace_all, fail) ==
    LET Outcome(r) ==
            IF fail = "none"
            THEN [medicines |-> r.work, seq |-> r.seq, status |-> 200,
                  summary |-> r.summary, can_fail |-> TRUE]
            ELSE [medicines |-> rollback(meds, WorkAt(r, fail)),
                  seq |-> IF fail = "commit" THEN r.seq ELSE seq,
                  status |-> 500, summary |-> NoSummary,
                  can_fail |-> fail \in FailPoints(r)]
    IN The({Outcome(r) :
              r \in {_apply_import_sync_to_csv(meds, disp, seq, rows, replace_all)}})

\* what the last request handled was given and what it answered; retry tells
\* that it applied the batch and flag of the request before it, both answered
\* 200; prior is the committed catalog an import found; items_json is the
\* form field of a dispense; portal, key and otp are those of an OTP request;
\* cookie is the doctor_auth cookie of a request or of its response
Response(op, status, rows, replace_all, token, summary) ==
    [op |-> op, status |-> status, rows |-> rows, replace_all |-> replace_all,
     token |-> token, summary |-> summary, retry |-> FALSE, prior |-> <<>>,
     error |-> "", items_json |-> [list |-> TRUE, items |-> <<>>],
     portal |-> "", key |-> <<>>, otp |-> <<>>, cookie |-> 0]

\* the answer to a request whose upload could not be read: the exception is
\* not caught, the server answers 500
ParseError(op, replace_all) ==
    [Response(op, 500, <<>>, replace_all, 0, NoSummary) EXCEPT !.error = "AttributeError"]

Retry(op, status, rows, replace_all) ==
    /\ status = 200
    /\ last.op = op
    /\ last.status = 200
    /\ last.replace_all = replace_all
    /\ last.rows = rows

-----------------------------------------------------------------------------
(* IMPORT_PREVIEW_CACHE *)

Expired(entry, t) == entry.created_at < t - IMPORT_PREVIEW_TTL_MINUTES

\* a variant: the purge removes nothing
_purge_import_cache_idle(c, t) == c

\* _purge_import_cache()
_purge_import_cache(c, t) ==
    [tk \in {k \in DOMAIN c : ~Expired(c[k], t)} |-> c[tk]]

\* a variant: the entry is left in the cache
CachePop_kept(c, token) == c

\* IMPORT_PREVIEW_CACHE.pop(token, None)
CachePop(c, token) == [tk \in DOMAIN c \ {token} |-> c[tk]]

\* IMPORT_PREVIEW_CACHE[token] = {...}
CachePut(c, token, entry) == [tk \in DOMAIN c \cup {token} |-> IF tk = token THEN entry ELSE c[tk]]

\* data = IMPORT_PREVIEW_CACHE.get(token); if not data: raise HTTPException(410)
CacheHit(c, token) == token \in DOMAIN c

-----------------------------------------------------------------------------
(* Inputs *)

Hdr_Name == <<"N", "a", "m", "e">>
Hdr_Medicine == <<"M", "e", "d", "i", "c", "i", "n", "e">>
Hdr_Qty == <<"Q", "t", "y">>
Hdr_Stock == <<" ", "S", "t", "o", "c", "k">>
Hdr_Strength == <<"S", "t", "r", "e", "n", "g", "t", "h">>
Hdr_Notes == <<"N", "o", "t", "e", "s">>

RowA == << <<Hdr_Name, <<"A">> >>, <<Hdr_Qty, <<"5">> >> >>
RowLowerA == << <<Hdr_Name, <<"a">> >>, <<Hdr_Qty, <<"-", "3">> >> >>
RowB == << <<Hdr_Medicine, <<" ", "B">> >>, <<Hdr_Stock, <<"2", ".", "7">> >>,
           <<Hdr_Strength, <<"x">> >> >>
RowNoName == << <<Hdr_Name, <<" ">> >>, <<Hdr_Qty, <<"1">> >>, <<Hdr_Notes, <<"x">> >> >>
\* the line ",,x" under the header Name,Qty
RowRagged == << <<Hdr_Name, <<>> >>, <<Hdr_Qty, <<>> >>, <<None, Rest>> >>
\* the line "A,5,x" under the header Name,Qty
RowRaggedA == << <<Hdr_Name, <<"A">> >>, <<Hdr_Qty, <<"5">> >>, <<None, Rest>> >>

CsvRows == {RowA, RowLowerA, RowB, RowNoName}

SeqsUpTo(S, n) == UNION {[1..k -> S] : k \in 0..n}

\* every uploaded file of at most MaxRows rows
AllUploads == SeqsUpTo(CsvRows, MaxRows)

\* every such file, one of two named rows and a row without a name,
\* and files with a line of more cells than the header
ApplyUploads ==
    AllUploads \cup {<<RowA, RowB, RowNoName>>, <<RowB, RowRagged>>, <<RowRaggedA>>}

\* the uploaded files of the workflow specification
SampleUploads ==
    {<<RowA>>, <<RowLowerA, RowB>>, <<RowNoName, RowB>>, <<RowA, RowLowerA>>}

Hdr_Reorder == <<"R", "e", "o", "r", "d", "e", "r">>

\* what a cell of a quantity column may hold
NumericCells ==
    {<<>>, <<" ">>, <<"a", "b", "c">>, <<"2", ".", "7">>, <<"-", "2", ".", "7">>,
     <<" ", "7", " ">>, <<"1", ".", "2", ".", "3">>, <<"-">>, <<".", "5">>,
     <<"1", "2">>}

\* one-line files under the header Name,<quantity header>,Reorder,Strength,Notes
NormUploads ==
    {<< << <<Hdr_Name, nm>>, <<qh, q>>, <<Hdr_Reorder, r>>, <<Hdr_Strength, <<"x">> >>,
           <<Hdr_Notes, <<"n">> >> >> >> :
        nm \in {<<"A">>, <<" ", "B">>}, qh \in {Hdr_Qty, Hdr_Stock},
        q \in NumericCells, r \in NumericCells}

\* catalogs with stocks below, at and above zero
SyncCatalogs ==
    UNION {{[i \in 1..k |-> Medicine(i, ("name" :> <<"A">>) @@ ("stock_qty" :> f[i]))] :
                f \in [1..k -> {0 - 3, 0, InitStock}]} : k \in 0..MaxInitMeds}

\* histories of at most MaxHistory Dispense rows: bills (medicine_id NULL) and
\* single-medicine rows with a quantity
SyncHistories(ids) ==
    SeqsUpTo({Dispense(mid, qty, <<>>) : mid \in ids \cup {0}, qty \in {0, 2, 5}},
             MaxHistory)

\* the lines of a bill, as _parse_items_json returns them
Line(medicine_id, qty) == [medicine_id |-> medicine_id, qty |-> qty]

\* the values of a JSON object: a number, null, a text that is no number
Num(n) == [kind |-> "number", n |-> n]
Null == [kind |-> "null", n |-> 0]
Text == [kind |-> "text", n |-> 0]

\* an entry of the JSON list: an object with medicine_id and qty, or not an object
Item(medicine_id, qty) == [dict |-> TRUE, medicine_id |-> medicine_id, qty |-> qty]
NotADict == [dict |-> FALSE, medicine_id |-> Null, qty |-> Null]

\* the form field items_json: a JSON list, or a text json.loads rejects
Json(items) == [list |-> TRUE, items |-> items]
NotJson == [list |-> FALSE, items |-> <<>>]

SampleBills ==
    {Json(<<>>), Json(<<Item(Num(1), Num(2))>>), Json(<<Item(Num(2), Num(2))>>),
     Json(<<Item(Num(1), Num(0))>>),
     Json(<<Item(Num(1), Num(2)), Item(Num(2), Num(5))>>)}

BillItems ==
    {Item(Num(1), Num(3)), Item(Num(1), Num(1)), Item(Num(2), Num(5)),
     Item(Num(2), Num(1)), Item(Num(3), Num(1)), Item(Num(1), Num(0)),
     Item(Null, Num(1)), Item(Num(1), Text), NotADict}

\* every bill of at most MaxLines entries, and a text that is no JSON
AllBills == {Json(items) : items \in SeqsUpTo(BillItems, MaxLines)} \cup {NotJson}

\* starting catalogs: ids 1..k, names that may collide in lower case (the
\* name column is not unique and load_medicines seeds repeated names)
InitNames == {<<"A">>, <<"a">>, <<"B">>}

InitCatalogs ==
    UNION {{[i \in 1..k |-> Medicine(i, ("name" :> f[i]) @@ ("stock_qty" :> InitStock))] :
                f \in [1..k -> InitNames]} : k \in 0..MaxInitMeds}

\* the ids of S in increasing order, as a sequence
IdSeq(S, n) ==
    LET F[i \in 0..n] ==
            IF i = 0 THEN <<>> ELSE IF i \in S THEN Append(F[i - 1], i) ELSE F[i - 1]
    IN F[n]

\* single-medicine Dispense rows (medicine_id set), one per referenced id
LegacyDispenses(ids) ==
    {[i \in 1..Len(IdSeq(R, MaxMedId)) |-> Dispense(IdSeq(R, MaxMedId)[i], 1, <<>>)] :
        R \in SUBSET ids}

Threads == {1, 2}

\* the two OTP stores: routers/reception.py and routers/patients.py
Portals == {"reception", "patients"}

\* phone numbers as typed, the one the registered patient gave, patient uids
Phones == {<<"9">>, <<"8">>}
RegisteredPhone == <<"9">>
RegisteredUid == "u1"
PatientUids == {"u1", "ux"}

\* what is typed into the name, username and password fields of the doctor forms
TypedNames == {<<"N">>, <<" ">>}
TypedUsernames == {<<"d", "1">>, <<"D", "1", " ">>, <<"d", "2">>, <<>>}
TypedPasswords == {<<"x">>, <<"y">>, <<>>}

\* the doctor_auth cookie of a request: 0 for none or one that is no number
Cookies == 0..MaxDoctors

\* random.randint(100000, 999999), and what is typed into the otp field
Codes == {<<"1", "1", "1">>, <<"2", "2", "2">>}
TypedCodes == Codes \cup {<<" ", "1", "1", "1">>}

NoLoc == [token |-> 0, rows |-> <<>>, replace_all |-> FALSE, status |-> 0,
          prior |-> <<>>, work |-> <<>>, summary |-> <<>>]

-----------------------------------------------------------------------------
(* Initial states *)

\* the application after create_all on an empty database, one patient registered
Init ==
    /\ medicines = <<>>
    /\ med_seq = 0
    /\ dispenses = <<>>
    /\ patient_status = "waiting"
    /\ cache = <<>>
    /\ tok_seq = 0
    /\ now = 0
    /\ nreq = 0
    /\ last = Response("none", 0, <<>>, FALSE, 0, NoSummary)
    /\ pc = [t \in Threads |-> "idle"]
    /\ loc = [t \in Threads |-> NoLoc]
    /\ file = <<>>
    /\ otp_store = [portal \in Portals |-> <<>>]
    /\ doctors = <<>>
    /\ prescriptions = <<>>

\* a drawn catalog and a drawn history of single-medicine dispenses
InitDrawn ==
    /\ medicines \in InitCatalogs
    /\ med_seq = Len(medicines)
    /\ dispenses \in LegacyDispenses(IdsOf(medicines))
    /\ patient_status = "waiting"
    /\ cache = <<>>
    /\ tok_seq = 0
    /\ now = 0
    /\ nreq = 0
    /\ last = Response("none", 0, <<>>, FALSE, 0, NoSummary)
    /\ pc = [t \in Threads |-> "idle"]
    /\ loc = [t \in Threads |-> NoLoc]
    /\ file = <<>>
    /\ otp_store = [portal \in Portals |-> <<>>]
    /\ doctors = <<>>
    /\ prescriptions = <<>>

\* an empty catalog and a drawn one-line file at hand
InitNorm ==
    /\ medicines = <<>>
    /\ med_seq = 0
    /\ dispenses = <<>>
    /\ patient_status = "waiting"
    /\ cache = <<>>
    /\ tok_seq = 0
    /\ now = 0
    /\ nreq = 0
    /\ last = Response("none", 0, <<>>, FALSE, 0, NoSummary)
    /\ pc = [t \in Threads |-> "idle"]
    /\ loc = [t \in Threads |-> NoLoc]
    /\ file \in NormUploads
    /\ otp_store = [portal \in Portals |-> <<>>]
    /\ doctors = <<>>
    /\ prescriptions = <<>>

\* a drawn catalog, stocks below zero included, and a drawn dispense history
InitSync ==
    /\ medicines \in SyncCatalogs
    /\ med_seq = Len(medicines)
    /\ dispenses \in SyncHistories(IdsOf(medicines))
    /\ patient_status = "waiting"
    /\ cache = <<>>
    /\ tok_seq = 0
    /\ now = 0
    /\ nreq = 0
    /\ last = Response("none", 0, <<>>, FALSE, 0, NoSummary)
    /\ pc = [t \in Threads |-> "idle"]
    /\ loc = [t \in Threads |-> NoLoc]
    /\ file = <<>>
    /\ otp_store = [portal \in Portals |-> <<>>]
    /\ doctors = <<>>
    /\ prescriptions = <<>>

-----------------------------------------------------------------------------
(* Request handlers, each run to completion *)

\* one more request is handled, while fewer than limit have been
Handled(limit) ==
    /\ nreq < limit
    /\ nreq' = nreq + 1
    /\ UNCHANGED <<file, otp_store, doctors, prescriptions>>

\* the try block shared by the three import entry points
ImportNow(op, parsed, replace_all, token, fail) ==
    \E t \in {ImportTxn(medicines, dispenses, med_seq, parsed, replace_all, fail)} :
        /\ t.can_fail
        /\ t.seq <= MaxMedId
        /\ medicines' = t.medicines
        /\ med_seq' = t.seq
        /\ last' = [Response(op, t.status, parsed, replace_all, token, t.summary)
                        EXCEPT !.retry = Retry(op, t.status, parsed, replace_all),
                               !.prior = medicines]

\* the persistence errors of a request: none, or one at a point of FailPoints
Failures == {"none", "delete_flush", "upsert_flush", "commit"}

\* a variant: the quick path purges the cache as the preview path does
import_preview_quick_purging(U, F) ==
    \E upload \in U, replace_all \in BOOLEAN, fail \in F :
      \E parsed \in {ParseUpload(upload)} :
        /\ ImportNow("import_preview_quick", parsed, replace_all, 0, fail)
        /\ cache' = _purge_import_cache(cache, now)
        /\ UNCHANGED <<dispenses, patient_status, tok_seq, now, pc, loc>>

\* POST /import/preview with quick=True
import_preview_quick(U, F) ==
    \E upload \in U, replace_all \in BOOLEAN, fail \in F :
      \E parsed \in {ParseUpload(upload)} :
        /\ IF ParseRaises(upload)
           THEN /\ fail = "none"
                /\ last' = ParseError("import_preview_quick", replace_all)
                /\ UNCHANGED <<medicines, med_seq>>
           ELSE ImportNow("import_preview_quick", parsed, replace_all, 0, fail)
        /\ UNCHANGED <<dispenses, patient_status, cache, tok_seq, now, pc, loc>>

\* a variant: the preview stores the batch and applies it too
import_preview_applying(U) ==
    \E upload \in U, replace_all \in BOOLEAN :
      \E parsed \in {ParseUpload(upload)} :
        /\ tok_seq < MaxTokens
        /\ tok_seq' = tok_seq + 1
        /\ cache' = _purge_import_cache(
                        CachePut(cache, tok_seq + 1,
                                 [created_at |-> now,
                                  rows_parsed |-> parsed,
                                  replace_all |-> replace_all]), now)
        /\ ImportNow("import_preview", parsed, replace_all, tok_seq + 1, "none")
        /\ UNCHANGED <<dispenses, patient_status, now, pc, loc>>

\* POST /import/preview with quick=False
import_preview(U) ==
    \E upload \in U, replace_all \in BOOLEAN :
      \E parsed \in {ParseUpload(upload)} :
        /\ IF ParseRaises(upload)
           THEN /\ last' = ParseError("import_preview_raised", replace_all)
                /\ UNCHANGED <<cache, tok_seq>>
           ELSE /\ tok_seq < MaxTokens
                /\ tok_seq' = tok_seq + 1
                /\ cache' = _purge_import_cache(
                                CachePut(cache, tok_seq + 1,
                                         [created_at |-> now,
                                          rows_parsed |-> parsed,
                                          replace_all |-> replace_all]), now)
                /\ last' = Response("import_preview", 200, parsed, replace_all,
                                    tok_seq + 1, NoSummary)
        /\ UNCHANGED <<medicines, med_seq, dispenses, patient_status, now, pc, loc>>

\* POST /import/confirm; replace_all is the form field of the confirm request
import_confirm(F) ==
    \E token \in 1..MaxTokens, replace_all \in BOOLEAN, fail \in F :
        /\ IF ~CacheHit(cache, token)
           THEN /\ fail = "none"
                /\ last' = Response("import_confirm", 410, <<>>, replace_all, token, NoSummary)
                /\ UNCHANGED <<medicines, med_seq, cache>>
           ELSE /\ ImportNow("import_confirm", cache[token].rows_parsed, replace_all,
                             token, fail)
                /\ cache' = CachePop(cache, token)
        /\ UNCHANGED <<dispenses, patient_status, tok_seq, now, pc, loc>>

\* POST /inventory/import
inventory_import(U, F) ==
    \E upload \in U, replace_all \in BOOLEAN, go \in BOOLEAN, fail \in F :
      \E parsed \in {ParseUpload(upload)} :
        /\ IF ParseRaises(upload)
           THEN /\ fail = "none"
                /\ last' = ParseError("inventory_import", replace_all)
                /\ UNCHANGED <<medicines, med_seq>>
           ELSE IF ~go
           THEN /\ fail = "none"
                /\ last' = Response("inventory_import_ask", 200, parsed,
                                    replace_all, 0, NoSummary)
                /\ UNCHANGED <<medicines, med_seq>>
           ELSE ImportNow("inventory_import", parsed, replace_all, 0, fail)
        /\ UNCHANGED <<dispenses, patient_status, cache, tok_seq, now, pc, loc>>

\* int(it.get(key) or 0): raises on a text that is no number
IntRaises(v) == v.kind = "text"

IntOr0(v) == IF v.kind = "number" THEN v.n ELSE 0

\* _parse_items_json(raw): the sanitized lines, [] when anything raises
_parse_items_json(raw) ==
    LET IsDict(it) == it.dict
        Raises(it) == IntRaises(it.medicine_id) \/ IntRaises(it.qty)
    IN IF ~raw.list THEN <<>>
       ELSE The({IF \E k \in 1..Len(dicts) : Raises(dicts[k]) THEN <<>>
                 ELSE [k \in 1..Len(dicts) |->
                          Line(IntOr0(dicts[k].medicine_id), IntOr0(dicts[k].qty))] :
                    dicts \in {SelectSeq(raw.items, IsDict)}})

\* db.query(Medicine).get(mid): the position of the row, 0 when there is none
GetMed(meds, mid) ==
    IF \E i \in 1..Len(meds) : meds[i].id = mid
    THEN CHOOSE i \in 1..Len(meds) : meds[i].id = mid
    ELSE 0

\* a variant: the validation does not compare qty with the stock
LineError_lenient(meds, ln) ==
    \/ GetMed(meds, ln.medicine_id) = 0
    \/ ln.qty <= 0

\* the validation loop of post_dispense: does this line add to line_errors?
LineError(meds, ln) ==
    \/ GetMed(meds, ln.medicine_id) = 0
    \/ ln.qty <= 0
    \/ ln.qty > meds[GetMed(meds, ln.medicine_id)].stock_qty

Max(a, b) == IF a >= b THEN a ELSE b

\* the decrement loop of post_dispense
DecrementStock(meds, items) ==
    LET F[k \in 0..Len(items)] ==
            IF k = 0 THEN meds
            ELSE LET at == GetMed(meds, items[k].medicine_id)
                 IN IF at = 0 THEN F[k - 1]
                    ELSE [F[k - 1] EXCEPT ![at].stock_qty = Max(0, @ - items[k].qty)]
    IN F[Len(items)]

\* POST /dispense/{patient_uid}
post_dispense(Bills) ==
    \E known \in BOOLEAN, raw \in Bills :
      \E items \in {_parse_items_json(raw)} :
        /\ IF ~known
           THEN /\ last' = [Response("post_dispense", 404, <<>>, FALSE, 0, NoSummary)
                                EXCEPT !.items_json = raw]
                /\ UNCHANGED <<medicines, dispenses, patient_status>>
           ELSE IF items = <<>> \/ \E k \in 1..Len(items) : LineError(medicines, items[k])
           THEN /\ last' = [Response("post_dispense_err", 302, items, FALSE, 0, NoSummary)
                                EXCEPT !.items_json = raw]
                /\ UNCHANGED <<medicines, dispenses, patient_status>>
           ELSE /\ medicines' = DecrementStock(medicines, items)
                /\ dispenses' = Append(dispenses, Dispense(0, 0, items))
                /\ patient_status' = "dispensed"
                /\ last' = [Response("post_dispense", 302, items, FALSE, 0, NoSummary)
                                EXCEPT !.items_json = raw]
        /\ UNCHANGED <<med_seq, cache, tok_seq, now, pc, loc>>

\* func.coalesce(func.sum(Dispense.qty), 0) grouped by Dispense.medicine_id
Dispensed(disp, id) ==
    LET F[i \in 0..Len(disp)] ==
            IF i = 0 THEN 0
            ELSE F[i - 1] + (IF disp[i].medicine_id = id THEN disp[i].qty ELSE 0)
    IN F[Len(disp)]

\* a variant: the dispensed units are taken off the current stock
SyncedQty_recomputed(m, disp) ==
    LET new_qty == m.stock_qty - Dispensed(disp, m.id)
    IN IF new_qty < 0 THEN 0 ELSE new_qty

\* the stock inventory_sync writes back for one medicine
SyncedQty(m, disp) ==
    LET base == m.stock_qty + Dispensed(disp, m.id)
        new_qty == base - Dispensed(disp, m.id)
    IN IF new_qty < 0 THEN 0 ELSE new_qty

\* POST /inventory/sync; the response's "synced" is reported in summary.total
inventory_sync ==
    /\ medicines' = [i \in 1..Len(medicines) |->
                        [medicines[i] EXCEPT !.stock_qty = SyncedQty(medicines[i], dispenses)]]
    /\ last' = [Response("inventory_sync", 200, <<>>, FALSE, 0,
                         [NoSummary EXCEPT !.total = Len(medicines)])
                    EXCEPT !.retry = (last.op = "inventory_sync"), !.prior = medicines]
    /\ UNCHANGED <<med_seq, dispenses, patient_status, cache, tok_seq, now, pc, loc>>

\* scripts/load_medicines.py: names drawn with repetition from CATEGORIES
SeedNames == {<<"A">>, <<"B">>}

SeedItems == 2

SeedSkipCount == 50

load_medicines ==
    /\ IF Len(medicines) >= SeedSkipCount
       THEN UNCHANGED <<medicines, med_seq>>
       ELSE /\ med_seq + SeedItems <= MaxMedId
            /\ \E f \in [1..SeedItems -> SeedNames] :
                 medicines' = medicines \o
                     [i \in 1..SeedItems |->
                         Medicine(med_seq + i,
                                  ("name" :> f[i]) @@ ("strength" :> <<"x">>) @@
                                  ("stock_qty" :> InitStock) @@ ("reorder_level" :> 10))]
            /\ med_seq' = med_seq + SeedItems
    /\ last' = Response("load_medicines", 0, <<>>, FALSE, 0, NoSummary)
    /\ UNCHANGED <<dispenses, patient_status, cache, tok_seq, now, pc, loc>>

\* time passes, one TTL at a time
Tick ==
    /\ now + IMPORT_PREVIEW_TTL_MINUTES <= MaxNow
    /\ now' = now + IMPORT_PREVIEW_TTL_MINUTES
    /\ UNCHANGED <<medicines, med_seq, dispenses, patient_status, cache, tok_seq,
                   nreq, last, pc, loc, file,
                       otp_store, doctors, prescriptions>>

-----------------------------------------------------------------------------
(* import_confirm in concurrent request threads (a sync handler runs in the  *)
(* server's thread pool): lookup, apply and commit, evict                    *)

confirm_lookup(t) ==
    \E token \in 1..MaxTokens, replace_all \in BOOLEAN :
        /\ pc[t] = "idle"
        /\ IF CacheHit(cache, token)
           THEN /\ pc' = [pc EXCEPT ![t] = "apply"]
                /\ loc' = [loc EXCEPT ![t] = [NoLoc EXCEPT
                                                !.token = token,
                                                !.rows = cache[token].rows_parsed,
                                                !.replace_all = replace_all]]
           ELSE /\ pc' = [pc EXCEPT ![t] = "done"]
                /\ loc' = [loc EXCEPT ![t] = [NoLoc EXCEPT !.token = token,
                                                            !.status = 410]]
        /\ UNCHANGED <<medicines, med_seq, dispenses, patient_status, cache, tok_seq,
                       now, nreq, last, file,
                       otp_store, doctors, prescriptions>>

confirm_apply(t) ==
    \E fail \in Failures :
        /\ pc[t] = "apply"
        /\ ImportNow("import_confirm", loc[t].rows, loc[t].replace_all, loc[t].token, fail)
        /\ pc' = [pc EXCEPT ![t] = "evict"]
        /\ loc' = [loc EXCEPT ![t].status = last'.status]
        /\ UNCHANGED <<dispenses, patient_status, cache, tok_seq, now, nreq, file,
                       otp_store, doctors, prescriptions>>

confirm_evict(t) ==
    /\ pc[t] = "evict"
    /\ cache' = CachePop(cache, loc[t].token)
    /\ pc' = [pc EXCEPT ![t] = "done"]
    /\ UNCHANGED <<medicines, med_seq, dispenses, patient_status, tok_seq, now, nreq,
                   last, loc, file,
                       otp_store, doctors, prescriptions>>

-----------------------------------------------------------------------------
(* The same threads, each with a session of its own: the queries of          *)
(* _apply_import_sync_to_csv read the committed rows, the flush and the      *)
(* commit write the session's changes to the table as it is by then          *)

\* the INSERT, UPDATE and DELETE statements of a session that read prior and
\* holds work, run on the committed table: a DELETE by primary key of a row
\* already gone matches nothing, an UPDATE by primary key sets the changed
\* columns and is stale when its row is gone, an INSERT draws a new id
SessionWrites(committed, seq, prior, work) ==
    LET Old(id) == prior[CHOOSE i \in 1..Len(prior) : prior[i].id = id]
        Inserted(m) == m.id \notin IdsOf(prior)
        Dirty(m) == ~Inserted(m) /\ m # Old(m.id)
        Stays(m) == m.id \in IdsOf(work) \/ m.id \notin IdsOf(prior)
        Written(m) ==
            IF \E j \in 1..Len(work) : work[j].id = m.id /\ Dirty(work[j])
            THEN LET w == work[CHOOSE j \in 1..Len(work) : work[j].id = m.id]
                 IN [f \in DOMAIN m |-> IF w[f] # Old(m.id)[f] THEN w[f] ELSE m[f]]
            ELSE m
    IN The({[stale |-> \E j \in 1..Len(work) :
                          Dirty(work[j]) /\ work[j].id \notin IdsOf(committed),
             medicines |-> [i \in 1..Len(kept) |-> Written(kept[i])] \o
                           [i \in 1..Len(added) |-> [added[i] EXCEPT !.id = seq + i]],
             seq |-> seq + Len(added)] :
                kept \in {SelectSeq(committed, Stays)},
                added \in {SelectSeq(work, Inserted)}})

\* _apply_import_sync_to_csv up to its last flush, in the thread's session
confirm_query(t) ==
    /\ pc[t] = "apply"
    /\ \E r \in {_apply_import_sync_to_csv(medicines, dispenses, med_seq, loc[t].rows,
                                           loc[t].replace_all)} :
          loc' = [loc EXCEPT ![t].prior = medicines, ![t].work = r.work,
                             ![t].summary = r.summary]
    /\ pc' = [pc EXCEPT ![t] = "commit"]
    /\ UNCHANGED <<medicines, med_seq, dispenses, patient_status, cache, tok_seq,
                   now, nreq, last, file,
                       otp_store, doctors, prescriptions>>

\* db.flush(); db.commit(), or except: db.rollback(); raise
confirm_commit(t) ==
    \E fail \in {"none", "commit"} :
      \E w \in {SessionWrites(medicines, med_seq, loc[t].prior, loc[t].work)} :
        /\ pc[t] = "commit"
        /\ w.seq <= MaxMedId
        /\ IF fail = "none" /\ ~w.stale
           THEN /\ medicines' = w.medicines
                /\ med_seq' = w.seq
                /\ last' = [Response("import_confirm", 200, loc[t].rows,
                                     loc[t].replace_all, loc[t].token, loc[t].summary)
                                EXCEPT !.prior = loc[t].prior]
           ELSE /\ medicines' = rollback(medicines, w.medicines)
                /\ med_seq' = med_seq
                /\ last' = [Response("import_confirm", 500, loc[t].rows,
                                     loc[t].replace_all, loc[t].token, NoSummary)
                                EXCEPT !.prior = loc[t].prior]
        /\ pc' = [pc EXCEPT ![t] = "evict"]
        /\ loc' = [loc EXCEPT ![t].status = last'.status]
        /\ UNCHANGED <<dispenses, patient_status, cache, tok_seq, now, nreq, file,
                       otp_store, doctors, prescriptions>>

-----------------------------------------------------------------------------
(* routers/reception.py and routers/patients.py: the simulated OTPs *)

\* one more request is handled by a route outside the pharmacy desk
Served(limit) ==
    /\ nreq < limit
    /\ nreq' = nreq + 1
    /\ UNCHANGED <<medicines, med_seq, dispenses, cache, tok_seq, now, pc, loc, file>>

\* otp_store[key] = (otp, expiry)
OtpPut(store, key, entry) ==
    [k \in DOMAIN store \cup {key} |-> IF k = key THEN entry ELSE store[k]]

\* del otp_store[key]
OtpDel(store, key) == [k \in DOMAIN store \ {key} |-> store[k]]

\* a variant: a successful verify leaves the entry in the store
OtpCheck_keeping(store, key, otp, t) ==
    IF key \notin DOMAIN store THEN [store |-> store, error |-> "no otp"]
    ELSE IF t > store[key].expiry THEN [store |-> OtpDel(store, key), error |-> "expired"]
    ELSE IF store[key].code # strip(otp) THEN [store |-> store, error |-> "invalid"]
    ELSE [store |-> store, error |-> ""]

\* the checks verify_otp and verify_patient_otp both make, and the store after
OtpCheck(store, key, otp, t) ==
    IF key \notin DOMAIN store THEN [store |-> store, error |-> "no otp"]
    ELSE IF t > store[key].expiry THEN [store |-> OtpDel(store, key), error |-> "expired"]
    ELSE IF store[key].code # strip(otp) THEN [store |-> store, error |-> "invalid"]
    ELSE [store |-> OtpDel(store, key), error |-> ""]

OtpResponse(op, status, portal, key, otp, error) ==
    [Response(op, status, <<>>, FALSE, 0, NoSummary)
        EXCEPT !.portal = portal, !.key = key, !.otp = otp, !.error = error]

\* POST /reception/send-otp
send_otp ==
    \E phone \in Phones, otp \in Codes :
        /\ otp_store' = [otp_store EXCEPT !["reception"] =
                            OtpPut(@, phone, [code |-> otp, expiry |-> now + OtpValidity])]
        /\ last' = OtpResponse("send_otp", 200, "reception", phone, otp, "")
        /\ UNCHANGED <<patient_status, doctors, prescriptions>>

\* POST /reception/verify-otp
verify_otp ==
    \E phone \in Phones, otp \in TypedCodes :
      \E c \in {OtpCheck(otp_store["reception"], phone, otp, now)} :
        /\ otp_store' = [otp_store EXCEPT !["reception"] = c.store]
        /\ last' = OtpResponse("verify_otp", IF c.error = "" THEN 200 ELSE 400,
                               "reception", phone, otp, c.error)
        /\ UNCHANGED <<patient_status, doctors, prescriptions>>

\* the key f"{patient_uid}|{phone}"
PatientKey(patient_uid, phone) == [patient_uid |-> patient_uid, phone |-> phone]

\* POST /p/send-otp
send_patient_otp ==
    \E patient_uid \in PatientUids, phone \in Phones, otp \in Codes :
        /\ IF patient_uid # RegisteredUid
           THEN /\ last' = OtpResponse("send_patient_otp", 404, "patients",
                                       PatientKey(patient_uid, phone), otp, "no patient")
                /\ UNCHANGED otp_store
           ELSE IF strip(phone) # strip(RegisteredPhone)
           THEN /\ last' = OtpResponse("send_patient_otp", 400, "patients",
                                       PatientKey(patient_uid, phone), otp, "phone")
                /\ UNCHANGED otp_store
           ELSE /\ otp_store' = [otp_store EXCEPT !["patients"] =
                                    OtpPut(@, PatientKey(patient_uid, phone),
                                           [code |-> otp, expiry |-> now + OtpValidity])]
                /\ last' = OtpResponse("send_patient_otp", 200, "patients",
                                       PatientKey(patient_uid, phone), otp, "")
        /\ UNCHANGED <<patient_status, doctors, prescriptions>>

\* POST /p/verify-otp
verify_patient_otp ==
    \E patient_uid \in PatientUids, phone \in Phones, otp \in TypedCodes :
      \E c \in {OtpCheck(otp_store["patients"], PatientKey(patient_uid, phone), otp, now)} :
        /\ IF patient_uid # RegisteredUid
           THEN /\ last' = OtpResponse("verify_patient_otp", 404, "patients",
                                       PatientKey(patient_uid, phone), otp, "no patient")
                /\ UNCHANGED otp_store
           ELSE /\ otp_store' = [otp_store EXCEPT !["patients"] = c.store]
                /\ last' = OtpResponse("verify_patient_otp", 303, "patients",
                                       PatientKey(patient_uid, phone), otp, c.error)
        /\ UNCHANGED <<patient_status, doctors, prescriptions>>

\* time.time() moves on, by a minute or by the validity of an OTP
Elapse ==
    \E d \in {1, OtpValidity} :
        /\ now + d <= MaxOtpNow
        /\ now' = now + d
        /\ UNCHANGED <<medicines, med_seq, dispenses, patient_status, cache, tok_seq,
                       nreq, last, pc, loc, file, otp_store, doctors, prescriptions>>

-----------------------------------------------------------------------------
(* routers/doctor.py and routers/admin.py: doctor accounts *)

\* Doctor(username=..., password_hash=..., status=...): the columns followed
Doctor(id, username, password, status) ==
    [id |-> id, username |-> username, password |-> password, status |-> status]

\* db.query(Doctor).filter(Doctor.id == doctor_id).first(): the position, 0 for None
DoctorById(docs, doctor_id) ==
    IF \E i \in 1..Len(docs) : docs[i].id = doctor_id
    THEN CHOOSE i \in 1..Len(docs) : docs[i].id = doctor_id
    ELSE 0

\* db.query(Doctor).filter(func.lower(Doctor.username) == name).first()
DoctorByUsername(docs, name) ==
    IF \E i \in 1..Len(docs) : lower(docs[i].username) = name
    THEN CHOOSE i \in 1..Len(docs) :
            /\ lower(docs[i].username) = name
            /\ \A j \in 1..(i - 1) : lower(docs[j].username) # name
    ELSE 0

\* _verify_password(plain, hashed) on a hash made by _hash_password
_verify_password(plain, hashed) == plain # <<>> /\ hashed # <<>> /\ plain = hashed

\* status.lower() in ("approved", "active", "enabled"); the statuses the code
\* writes are lower-case literals
StatusAllows(status) == status \in {"approved", "active", "enabled"}

\* a variant: the status of the doctor is not looked at
_require_doctor_unchecked(docs, cookie) ==
    IF cookie = 0 \/ DoctorById(docs, cookie) = 0 THEN 401
    ELSE 0

\* _require_doctor(request, db): 0 when the doctor is returned, else the
\* status code of the HTTPException
_require_doctor(docs, cookie) ==
    IF cookie = 0 \/ DoctorById(docs, cookie) = 0 THEN 401
    ELSE IF ~StatusAllows(docs[DoctorById(docs, cookie)].status) THEN 403
    ELSE 0

DoctorResponse(op, status, cookie, error) ==
    [Response(op, status, <<>>, FALSE, 0, NoSummary)
        EXCEPT !.cookie = cookie, !.error = error]

\* POST /doctor/register
register_submit ==
    \E name \in TypedNames, username \in TypedUsernames, password \in TypedPasswords :
        /\ IF strip(name) = <<>> \/ lower(strip(username)) = <<>> \/ strip(password) = <<>>
           THEN /\ last' = DoctorResponse("register_submit", 200, 0, "required")
                /\ UNCHANGED doctors
           ELSE IF DoctorByUsername(doctors, lower(strip(username))) # 0
           THEN /\ last' = DoctorResponse("register_submit", 200, 0, "in use")
                /\ UNCHANGED doctors
           ELSE /\ Len(doctors) < MaxDoctors
                /\ doctors' = Append(doctors,
                                     Doctor(Len(doctors) + 1, lower(strip(username)),
                                            strip(password), "pending"))
                /\ last' = DoctorResponse("register_submit", 200, 0, "")
        /\ UNCHANGED <<patient_status, otp_store, prescriptions>>

\* POST /doctor/login; the cookie of the response is str(doc.id)
login_submit ==
    \E username \in TypedUsernames, password \in TypedPasswords :
      \E at \in {DoctorByUsername(doctors, lower(strip(username)))} :
        /\ last' =
              IF lower(strip(username)) = <<>> \/ strip(password) = <<>>
              THEN DoctorResponse("login_submit", 200, 0, "required")
              ELSE IF at = 0 \/ ~_verify_password(strip(password), doctors[at].password)
              THEN DoctorResponse("login_submit", 200, 0, "invalid")
              ELSE IF ~StatusAllows(doctors[at].status)
              THEN DoctorResponse("login_submit", 200, 0, "pending")
              ELSE DoctorResponse("login_submit", 302, doctors[at].id, "")
        /\ UNCHANGED <<patient_status, otp_store, doctors, prescriptions>>

\* doctor = ...first(); if doctor: doctor.status = status; db.commit()
SetStatus(docs, doctor_id, status) ==
    [i \in 1..Len(docs) |->
        IF docs[i].id = doctor_id THEN [docs[i] EXCEPT !.status = status] ELSE docs[i]]

\* GET /admin/approve-doctor/{doctor_id}
approve_doctor ==
    \E doctor_id \in 1..MaxDoctors :
        /\ doctors' = SetStatus(doctors, doctor_id, "approved")
        /\ last' = DoctorResponse("approve_doctor", 302, doctor_id, "")
        /\ UNCHANGED <<patient_status, otp_store, prescriptions>>

\* GET /admin/reject-doctor/{doctor_id}
reject_doctor ==
    \E doctor_id \in 1..MaxDoctors :
        /\ doctors' = SetStatus(doctors, doctor_id, "rejected")
        /\ last' = DoctorResponse("reject_doctor", 302, doctor_id, "")
        /\ UNCHANGED <<patient_status, otp_store, prescriptions>>

\* GET /doctor/dashboard
doctor_dashboard ==
    \E cookie \in Cookies :
        /\ last' = IF _require_doctor(doctors, cookie) # 0
                   THEN DoctorResponse("doctor_dashboard", 302, cookie, "login")
                   ELSE DoctorResponse("doctor_dashboard", 200, cookie, "")
        /\ UNCHANGED <<patient_status, otp_store, doctors, prescriptions>>

\* POST /doctor/prescribe/{patient_uid}
save_prescription ==
    \E cookie \in Cookies, patient_uid \in PatientUids :
        /\ IF _require_doctor(doctors, cookie) # 0
           THEN /\ last' = DoctorResponse("save_prescription", 302, cookie, "login")
                /\ UNCHANGED <<patient_status, prescriptions>>
           ELSE IF patient_uid # RegisteredUid
           THEN /\ last' = DoctorResponse("save_prescription", 404, cookie, "no patient")
                /\ UNCHANGED <<patient_status, prescriptions>>
           ELSE /\ prescriptions' = Append(prescriptions, cookie)
                /\ patient_status' = "Done"
                /\ last' = DoctorResponse("save_prescription", 302, cookie, "")
        /\ UNCHANGED <<otp_store, doctors>>

-----------------------------------------------------------------------------
(* Specifications *)

Next ==
    \/ Handled(MaxRequests) /\ import_preview_quick(SampleUploads, Failures)
    \/ Handled(MaxRequests) /\ import_preview(SampleUploads)
    \/ Handled(MaxRequests) /\ import_confirm(Failures)
    \/ Handled(MaxRequests) /\ inventory_import(SampleUploads, Failures)
    \/ Handled(MaxRequests) /\ inventory_sync
    \/ Handled(MaxRequests) /\ post_dispense(SampleBills)
    \/ Handled(MaxRequests) /\ load_medicines
    \/ Tick

Spec == Init /\ [][Next]_vars

\* the reconciliation on every drawn catalog, history and upload, the store
\* never failing
NextApply == Handled(MaxApplies) /\ inventory_import(ApplyUploads, {"none"})

SpecApply == InitDrawn /\ [][NextApply]_vars

\* previews, and two request threads in import_confirm
NextConc ==
    \/ Handled(MaxRequests) /\ import_preview(SampleUploads)
    \/ \E t \in Threads : confirm_lookup(t)
    \/ \E t \in Threads : confirm_apply(t)
    \/ \E t \in Threads : confirm_evict(t)

SpecConc == Init /\ [][NextConc]_vars

\* the file at hand sent to /inventory/import, once and again
NextNorm == Handled(MaxNormalized) /\ inventory_import({file}, {"none"})

SpecNorm == InitNorm /\ [][NextNorm]_vars

\* inventory_sync on every drawn catalog and history, once and again
NextSync == Handled(MaxSyncs) /\ inventory_sync

SpecSync == InitSync /\ [][NextSync]_vars

\* bills on every drawn catalog
NextBill == Handled(MaxBills) /\ post_dispense(AllBills)

SpecBill == InitDrawn /\ [][NextBill]_vars

\* the OTP routes of the two portals and the clock
NextOtp ==
    \/ Served(MaxOtpRequests) /\ send_otp
    \/ Served(MaxOtpRequests) /\ verify_otp
    \/ Served(MaxOtpRequests) /\ send_patient_otp
    \/ Served(MaxOtpRequests) /\ verify_patient_otp
    \/ Elapse

SpecOtp == Init /\ [][NextOtp]_vars

\* the doctor routes and the admin's approval routes
NextDoctor ==
    \/ Served(MaxDoctorRequests) /\ register_submit
    \/ Served(MaxDoctorRequests) /\ login_submit
    \/ Served(MaxDoctorRequests) /\ approve_doctor
    \/ Served(MaxDoctorRequests) /\ reject_doctor
    \/ Served(MaxDoctorRequests) /\ doctor_dashboard
    \/ Served(MaxDoctorRequests) /\ save_prescription

SpecDoctor == Init /\ [][NextDoctor]_vars

\* previews, and two request threads in import_confirm, each in its session
NextRace ==
    \/ Handled(MaxRequests) /\ import_preview(SampleUploads)
    \/ \E t \in Threads : confirm_lookup(t)
    \/ \E t \in Threads : confirm_query(t)
    \/ \E t \in Threads : confirm_commit(t)
    \/ \E t \in Threads : confirm_evict(t)

SpecRace == Init /\ [][NextRace]_vars


-----------------------------------------------------------------------------
(* Properties *)

ImportOps == {"import_preview_quick", "import_confirm", "inventory_import"}

\* this step handled a request
RequestStep == nreq' = nreq + 1

\* the last request handled was an import that committed
Applied == last.op \in ImportOps /\ last.status = 200

\* the distinct non-empty lower-cased names of a parsed batch
DistinctNames(rows) == {_lc(rows[i]["name"]) : i \in 1..Len(rows)} \ {<<>>}

\* the rows of a parsed batch whose non-empty lower-cased name comes again in
\* a later row
Overwritten(rows) ==
    {i \in 1..Len(rows) :
        /\ _lc(rows[i]["name"]) # <<>>
        /\ \E j \in (i + 1)..Len(rows) : _lc(rows[j]["name"]) = _lc(rows[i]["name"])}

\* C1: an application with replace_all = True never deletes a Medicine that a
\* Dispense row references: every catalog entry whose id is a medicine_id of
\* some Dispense before the request is still in the catalog after it.
ReplaceKeepsReferenced ==
    [][(RequestStep /\ last'.op \in ImportOps /\ last'.replace_all) =>
          \A i \in 1..Len(medicines) :
              medicines[i].id \in ReferencedIds(dispenses, IdsOf(medicines)) =>
                  medicines[i].id \in IdsOf(medicines')]_vars

\* a replace that deleted an entry and kept another for its history
ReplaceKeepsReferenced_Witness ==
    /\ Applied
    /\ last.replace_all
    /\ last.summary.deleted > 0
    /\ last.summary.kept_due_to_history > 0
    /\ \E i \in 1..Len(medicines) :
          /\ medicines[i].id \in ReferencedIds(dispenses, IdsOf(medicines))
          /\ _lc(medicines[i].name) \notin DistinctNames(last.rows)

\* C2: an application with replace_all = False removes nothing: the summary
\* has deleted = 0 and kept_due_to_history = 0, every catalog entry of before
\* is there after, and the catalog is no smaller; on the quick preview, the
\* confirm and the inventory import alike.
MergeRemovesNothing ==
    [][(RequestStep /\ last'.op \in ImportOps /\ last'.status = 200
            /\ ~last'.replace_all) =>
          /\ last'.summary.deleted = 0
          /\ last'.summary.kept_due_to_history = 0
          /\ IdsOf(medicines) \subseteq IdsOf(medicines')
          /\ Len(medicines') >= Len(medicines)]_vars

\* a confirmed merge that left in place an entry its batch does not name
MergeRemovesNothing_Witness ==
    /\ last.op = "import_confirm"
    /\ last.status = 200
    /\ ~last.replace_all
    /\ last.rows # <<>>
    /\ \E i \in 1..Len(medicines) :
          _lc(medicines[i].name) \notin DistinctNames(last.rows)

\* C3: a confirm on a token whose cache entry is older than the 45 minute TTL
\* is rejected with 410 and changes no Medicine, purged or not.
ExpiredConfirmRejected ==
    [][(RequestStep /\ last'.op = "import_confirm"
            /\ last'.token \in DOMAIN cache
            /\ Expired(cache[last'.token], now)) =>
          (last'.status = 410 /\ medicines' = medicines)]_vars

\* C4: of two concurrent confirms on one token at most one applies the batch.
ConcurrentConfirmAppliesOnce ==
    \A t1, t2 \in Threads :
        (t1 # t2 /\ loc[t1].token # 0 /\ loc[t1].token = loc[t2].token) =>
            ~(loc[t1].status = 200 /\ loc[t2].status = 200)

\* C5: import_confirm takes the token out of the cache whether the apply
\* commits or raises; tokens enter the cache only fresh from a preview, so a
\* token's batch is applied at most once by confirms handled one after the
\* other; a confirm on a token that is not in the cache (used before, or
\* never issued) is answered 410 and leaves the catalog alone.
ConfirmConsumesToken ==
    [][/\ \A k \in DOMAIN cache' :
             k \in DOMAIN cache \/ (k = tok_seq' /\ tok_seq' = tok_seq + 1)
       /\ (RequestStep /\ last'.op = "import_confirm") =>
             /\ last'.token \notin DOMAIN cache'
             /\ last'.status \in {200, 500} => last'.token \in DOMAIN cache
             /\ last'.token \notin DOMAIN cache =>
                   /\ last'.status = 410
                   /\ medicines' = medicines
                   /\ med_seq' = med_seq]_vars

\* the only token issued was confirmed and applied, and the confirm after it
\* was answered 410
ConfirmConsumesToken_Witness ==
    /\ last.op = "import_confirm"
    /\ last.status = 410
    /\ last.token = 1
    /\ tok_seq = 1
    /\ nreq = 3
    /\ now = 0
    /\ medicines # <<>>

\* C6, as the specification states it: after an application,
\* created + updated + skipped = total = the number of rows of the batch,
\* rows sharing a name included.
SummaryCountsAddUp ==
    Applied =>
        /\ last.summary.total = Len(last.rows)
        /\ last.summary.created + last.summary.updated + last.summary.skipped
              = last.summary.total

\* C6, amended: total is the number of rows of the batch, skipped the number
\* of rows with an empty name, created + updated the number of distinct
\* non-empty lower-cased names; so created + updated + skipped falls short of
\* total by the number of rows whose name comes again in a later row, and
\* equals total exactly when no two rows share a non-empty lower-cased name.
SummaryCountsDistinctNames ==
    Applied =>
        /\ last.summary.total = Len(last.rows)
        /\ last.summary.skipped =
              Cardinality({i \in 1..Len(last.rows) : _lc(last.rows[i]["name"]) = <<>>})
        /\ last.summary.created + last.summary.updated
              = Cardinality(DistinctNames(last.rows))
        /\ last.summary.created + last.summary.updated + last.summary.skipped
              + Cardinality(Overwritten(last.rows)) = last.summary.total

\* an applied batch with two rows of one lower-cased name
SummaryCountsDistinctNames_Witness ==
    /\ Applied
    /\ Overwritten(last.rows) # {}
    /\ last.summary.created + last.summary.updated + last.summary.skipped
          < last.summary.total

\* C7: when the store fails in the deletion phase, in the upsert phase or at
\* the commit, the request is answered with the error and the committed
\* catalog is what it was before the request; on import_confirm, the quick
\* preview and the inventory import alike.
FailedImportChangesNothing ==
    [][(RequestStep /\ last'.op \in ImportOps /\ last'.status = 500) =>
          (medicines' = medicines /\ dispenses' = dispenses)]_vars

\* a failed replace on a catalog with entries, its batch naming some medicine
FailedImportChangesNothing_Witness ==
    /\ last.op \in ImportOps
    /\ last.status = 500
    /\ last.replace_all
    /\ medicines # <<>>
    /\ DistinctNames(last.rows) # {}

\* C8: in every reachable state every Medicine has stock_qty >= 0 and
\* reorder_level >= 0.
StockNeverNegative ==
    \A i \in 1..Len(medicines) :
        medicines[i].stock_qty >= 0 /\ medicines[i].reorder_level >= 0

\* C9: the same batch applied a second time with replace_all = False creates
\* nothing and updates as many entries as the batch has distinct non-empty
\* lower-cased names.
MergeRetryUpdatesOnly ==
    (last.retry /\ ~last.replace_all) =>
        /\ last.summary.created = 0
        /\ last.summary.updated = Cardinality(DistinctNames(last.rows))

\* a merge applied twice, its batch with two distinct names
MergeRetryUpdatesOnly_Witness ==
    /\ last.retry
    /\ ~last.replace_all
    /\ Cardinality(DistinctNames(last.rows)) = 2
    /\ last.summary.updated = 2

\* C10: a batch applied a second time with the same flag leaves the catalog
\* as the first application left it; a retried replace deletes nothing more.
RetryChangesNothing ==
    [][(RequestStep /\ last'.retry) =>
          (medicines' = medicines /\ last'.summary.deleted = 0)]_vars

\* the entry of a catalog with this id
ById(meds, id) == meds[CHOOSE i \in 1..Len(meds) : meds[i].id = id]

\* the last row of a parsed batch with this non-empty lower-cased name
LastRow(rows, nm) ==
    rows[CHOOSE i \in 1..Len(rows) :
            /\ _lc(rows[i]["name"]) = nm
            /\ \A j \in (i + 1)..Len(rows) : _lc(rows[j]["name"]) # nm]

\* the entries of a catalog with this lower-cased name
Named(meds, nm) == {i \in 1..Len(meds) : _lc(meds[i].name) = nm}

\* the entries of the catalog that the last import added
Added == {j \in 1..Len(medicines) : medicines[j].id \notin IdsOf(last.prior)}

LastDuplicateWins ==
    Applied =>
        \A nm \in DistinctNames(last.rows) :
            \E j \in 1..Len(medicines) :
                /\ _lc(medicines[j].name) = nm
                /\ j \in Added \/ medicines[j].id \in
                                    {last.prior[i].id : i \in Named(last.prior, nm)}
                /\ \A f \in DOMAIN LastRow(last.rows, nm) :
                      medicines[j][f] = LastRow(last.rows, nm)[f]

\* a batch with two rows of one name and different quantities was applied, and
\* no entry of the name holds the quantity of the earlier row
LastDuplicateWins_Witness ==
    /\ Applied
    /\ \E i \in Overwritten(last.rows) :
          /\ "stock_qty" \in DOMAIN last.rows[i]
          /\ "stock_qty" \in DOMAIN LastRow(last.rows, _lc(last.rows[i]["name"]))
          /\ last.rows[i]["stock_qty"]
                # LastRow(last.rows, _lc(last.rows[i]["name"]))["stock_qty"]
          /\ \A j \in Named(medicines, _lc(last.rows[i]["name"])) :
                medicines[j].stock_qty
                    = LastRow(last.rows, _lc(last.rows[i]["name"]))["stock_qty"]

\* the entries of the catalog an import found whose lower-cased name is not
\* in its batch
AbsentFromBatch == {i \in 1..Len(last.prior) :
                       _lc(last.prior[i].name) \notin DistinctNames(last.rows)}

\* C13: under replace_all = True every existing entry whose lower-cased name
\* is absent from the batch is deleted or counted in kept_due_to_history:
\* deleted + kept_due_to_history is the number of such entries, and every
\* entry left after the call has a name of the batch or is referenced by a
\* Dispense; in every catalog, one with several entries of a name included.
ReplaceSettlesEveryAbsentEntry ==
    (Applied /\ last.replace_all) =>
        /\ last.summary.deleted + last.summary.kept_due_to_history
              = Cardinality(AbsentFromBatch)
        /\ \A j \in 1..Len(medicines) :
              \/ _lc(medicines[j].name) \in DistinctNames(last.rows)
              \/ medicines[j].id \in ReferencedIds(dispenses, IdsOf(medicines))

PreviewStoresAndPurges ==
    [][(RequestStep /\ last'.op = "import_preview") =>
          /\ last'.token \in DOMAIN cache'
          /\ last'.token \notin DOMAIN cache
          /\ \A k \in DOMAIN cache' :
                now' - cache'[k].created_at <= IMPORT_PREVIEW_TTL_MINUTES
          /\ \A k \in DOMAIN cache :
                now - cache[k].created_at <= IMPORT_PREVIEW_TTL_MINUTES =>
                    (k \in DOMAIN cache' /\ cache'[k] = cache[k])]_vars

\* two previews were the only requests, and the second, 90 minutes after the
\* first, left its own token alone in the cache
PreviewStoresAndPurges_Witness ==
    /\ last.op = "import_preview"
    /\ nreq = 2
    /\ tok_seq = 2
    /\ DOMAIN cache = {2}
    /\ cache[2].created_at = now
    /\ now = 2 * IMPORT_PREVIEW_TTL_MINUTES

\* C16: a quick import applies its batch in the call and leaves the preview
\* cache as it was: no token is issued, no entry stored, none purged.
QuickImportLeavesCache ==
    [][(RequestStep /\ last'.op = "import_preview_quick") =>
          /\ cache' = cache
          /\ tok_seq' = tok_seq
          /\ last'.token = 0
          /\ last'.status = 200 => last'.summary.total = Len(last'.rows)]_vars

\* a quick import has committed entries while an entry older than the TTL is
\* in the cache
QuickImportLeavesCache_Witness ==
    /\ last.op = "import_preview_quick"
    /\ last.status = 200
    /\ last.summary.created > 0
    /\ \E k \in DOMAIN cache : Expired(cache[k], now)

\* C17: a non-quick import_preview changes the preview cache alone: the
\* catalog (and the id sequence, the dispenses, the patient) is after it what
\* it was before; a cached batch reaches the catalog only in a confirm on a
\* token that is in the cache.
PreviewLeavesCatalog ==
    [][/\ (RequestStep /\ last'.op = "import_preview") =>
             /\ medicines' = medicines
             /\ med_seq' = med_seq
             /\ dispenses' = dispenses
             /\ patient_status' = patient_status
             /\ cache'[last'.token].rows_parsed = last'.rows
       /\ (RequestStep /\ last'.token # 0 /\ medicines' # medicines) =>
             /\ last'.op = "import_confirm"
             /\ last'.token \in DOMAIN cache
             /\ last'.rows = cache[last'.token].rows_parsed]_vars

\* a preview has stored a batch none of whose names is in the catalog
PreviewLeavesCatalog_Witness ==
    /\ last.op = "import_preview"
    /\ last.token \in DOMAIN cache
    /\ DistinctNames(last.rows) # {}
    /\ \A nm \in DistinctNames(last.rows) : Named(medicines, nm) = {}

\* C18: the counters of the summary are the change of the catalog: created is
\* the number of distinct non-empty lower-cased names of the batch with no
\* entry of that name in the catalog, and that many entries are added;
\* updated is the number of those with such an entry; skipped is the number of
\* rows with an empty name.
SummaryMatchesChange ==
    Applied =>
        /\ last.summary.created =
              Cardinality({nm \in DistinctNames(last.rows) : Named(last.prior, nm) = {}})
        /\ Cardinality(Added) = last.summary.created
        /\ last.summary.updated =
              Cardinality({nm \in DistinctNames(last.rows) : Named(last.prior, nm) # {}})
        /\ last.summary.skipped =
              Cardinality({i \in 1..Len(last.rows) : _lc(last.rows[i]["name"]) = <<>>})

\* two named rows and a row without a name imported into an empty catalog:
\* created 2, updated 0, skipped 1, deleted 0, two entries in the catalog
SummaryMatchesChange_Witness ==
    /\ Applied
    /\ last.prior = <<>>
    /\ Len(last.rows) = 3
    /\ last.summary.created = 2
    /\ last.summary.updated = 0
    /\ last.summary.skipped = 1
    /\ last.summary.deleted = 0
    /\ Len(medicines) = 2

\* C19: under replace_all = True an entry absent from the batch and referenced
\* by a Dispense is in the catalog after the call with every field as it was,
\* and is counted once in kept_due_to_history (which so is the number of such
\* entries); an entry whose name is in the batch is never deleted, whatever
\* its history.
ReplaceKeepsAndCountsReferenced ==
    (Applied /\ last.replace_all) =>
        /\ \A i \in 1..Len(last.prior) :
              IF i \in AbsentFromBatch
              THEN last.prior[i].id \in ReferencedIds(dispenses, IdsOf(last.prior)) =>
                      /\ last.prior[i].id \in IdsOf(medicines)
                      /\ ById(medicines, last.prior[i].id) = last.prior[i]
              ELSE last.prior[i].id \in IdsOf(medicines)
        /\ last.summary.kept_due_to_history =
              Cardinality({i \in AbsentFromBatch :
                  last.prior[i].id \in ReferencedIds(dispenses, IdsOf(last.prior))})

\* the rows of a parsed batch that have a name, in their order
NamedRows(rows) ==
    LET F[i \in 0..Len(rows)] ==
            IF i = 0 THEN <<>>
            ELSE IF _lc(rows[i]["name"]) = <<>> THEN F[i - 1]
            ELSE Append(F[i - 1], rows[i])
    IN F[Len(rows)]

\* the call on the catalog the last import found, its batch without the rows
\* that have no name
WithoutNameless ==
    _apply_import_sync_to_csv(last.prior, dispenses, med_seq - last.summary.created,
                              NamedRows(last.rows), last.replace_all)

\* C20: a row whose name is empty or only whitespace does not make the import
\* raise and leaves no trace in the catalog: it is counted once in skipped, and
\* the catalog and the other counters are those of the same batch without it.
\* (A row on which the filter of the upload raises has every named cell blank,
\* so it is a row without a name.)
NamelessRowsSkipped ==
    (last.op \in ImportOps /\ last.status # 0) =>
        /\ last.error # "AttributeError"
        /\ last.status = 200
        /\ last.summary.skipped = Len(last.rows) - Len(NamedRows(last.rows))
        /\ medicines = WithoutNameless.work
        /\ last.summary.created = WithoutNameless.summary.created
        /\ last.summary.updated = WithoutNameless.summary.updated
        /\ last.summary.deleted = WithoutNameless.summary.deleted
        /\ last.summary.kept_due_to_history = WithoutNameless.summary.kept_due_to_history
        /\ \A j \in 1..Len(medicines) : _lc(medicines[j].name) # <<>>

\* the integer a cell of a quantity column stands for: the whole part of the
\* number it holds, 0 when it holds none
CellTable ==
    << <<<<>>, 0>>, <<<<" ">>, 0>>, <<<<"a", "b", "c">>, 0>>, <<<<"2", ".", "7">>, 2>>,
       <<<<"-", "2", ".", "7">>, 0 - 2>>, <<<<" ", "7", " ">>, 7>>,
       <<<<"1", ".", "2", ".", "3">>, 0>>, <<<<"-">>, 0>>, <<<<".", "5">>, 0>>,
       <<<<"1", "2">>, 12>> >>

Expected(cell) == CellTable[CHOOSE i \in 1..Len(CellTable) : CellTable[i][1] = cell][2]

\* a cell without its blanks
Unblanked(cell) == LET Inked(ch) == ch # " " IN SelectSeq(cell, Inked)

\* the file at hand was imported by the last request
FileImported == last.op = "inventory_import" /\ last.status = 200 /\ Len(file) = 1

\* C21: _row_to_payload never raises on a bad numeric cell: an empty or
\* unparsable stock_qty or reorder_level cell yields 0 and a decimal value is
\* truncated to an integer; the row keeps its name and its other fields and is
\* upserted, not skipped; a header outside the synonym table contributes no
\* field to the payload.
BadNumericCellYieldsZero ==
    FileImported =>
        /\ Len(last.rows) = 1
        /\ DOMAIN last.rows[1] = {"name", "stock_qty", "reorder_level", "strength"}
        /\ last.rows[1]["name"] = Unblanked(file[1][1][2])
        /\ last.rows[1]["stock_qty"] = Expected(file[1][2][2])
        /\ last.rows[1]["reorder_level"] = Expected(file[1][3][2])
        /\ last.rows[1]["strength"] = <<"x">>
        /\ last.summary.skipped = 0
        /\ last.summary.created + last.summary.updated = 1
        /\ Len(medicines) = 1
        /\ medicines[1].name = Unblanked(file[1][1][2])
        /\ medicines[1].stock_qty = Expected(file[1][2][2])
        /\ medicines[1].reorder_level = Expected(file[1][3][2])
        /\ medicines[1].strength = <<"x">>

\* a row with an unparsable quantity and a decimal reorder level was created
BadNumericCellYieldsZero_Witness ==
    /\ FileImported
    /\ file[1][2][2] = <<"a", "b", "c">>
    /\ file[1][3][2] = <<"-", "2", ".", "7">>
    /\ last.summary.created = 1
    /\ medicines[1].stock_qty = 0
    /\ medicines[1].reorder_level = 0 - 2

\* C22: the mode import_confirm applies is the replace_all chosen at the
\* preview that issued the token: a batch previewed with replace_all = False
\* is applied without deletions, one previewed with replace_all = True is
\* applied as a replace.
ConfirmAppliesPreviewedMode ==
    [][(RequestStep /\ last'.op = "import_confirm" /\ last'.status = 200) =>
          /\ last'.replace_all = cache[last'.token].replace_all
          /\ ~cache[last'.token].replace_all => IdsOf(medicines) \subseteq IdsOf(medicines')
          /\ cache[last'.token].replace_all => last'.summary.replaced_all = 1]_vars

\* the medicines named by the lines of the committed bills
SoldIds(disp) ==
    UNION {{disp[d].items[k].medicine_id : k \in 1..Len(disp[d].items)} :
              d \in 1..Len(disp)}

\* C23: a medicine sold through post_dispense (a line of a committed bill
\* names it) is never deleted by a later import with replace_all = True that
\* omits it.
ReplaceKeepsSold ==
    [][(RequestStep /\ last'.op \in ImportOps /\ last'.replace_all) =>
          \A i \in 1..Len(medicines) :
              medicines[i].id \in SoldIds(dispenses) =>
                  medicines[i].id \in IdsOf(medicines')]_vars

\* no two entries of the catalog share a lower-cased, trimmed name
UniqueNames(meds) ==
    \A i, j \in 1..Len(meds) : _lc(meds[i].name) = _lc(meds[j].name) => i = j

\* C24: sequential imports preserve case-insensitive name uniqueness: when no
\* two entries of the catalog an import finds share a lower-cased, trimmed
\* name, no two entries share one after it, in either mode and for every
\* batch, batches with repeated or differently-cased names included.
ImportKeepsNamesUnique ==
    (last.op \in ImportOps /\ last.status = 200 /\ UniqueNames(last.prior)) =>
        UniqueNames(medicines)

\* a batch naming "A" and "a" applied on a catalog of distinct names, one entry
\* updated, another entry beside it
ImportKeepsNamesUnique_Witness ==
    /\ Applied
    /\ UniqueNames(last.prior)
    /\ Len(last.prior) = 2
    /\ Overwritten(last.rows) # {}
    /\ \E i, j \in 1..Len(last.rows) : last.rows[i]["name"] # last.rows[j]["name"]
    /\ last.summary.updated = 1
    /\ Len(medicines) = 2
    /\ UniqueNames(medicines)

\* both request threads have committed their import
BothCommitted == \A t \in Threads : pc[t] \in {"evict", "done"} /\ loc[t].status = 200

\* C25: two import applications running concurrently in separate requests,
\* whose batches both hold a name not yet in the catalog, leave at most one
\* entry of that lower-cased name once both have committed.
ConcurrentImportsKeepNamesUnique ==
    BothCommitted => UniqueNames(medicines)

DispenseOps == {"post_dispense", "post_dispense_err"}

\* the number an entry of a bill gives for a key: null counts as 0
Given(v) == IF v.kind = "number" THEN v.n ELSE 0

\* the entries of a bill that are objects
Objects(bill) == {k \in 1..Len(bill.items) : bill.items[k].dict}

\* the bill cannot be read: it is no JSON list, or an entry carries a text
\* where a number is due
Unparsable(bill) ==
    \/ ~bill.list
    \/ \E k \in Objects(bill) :
          bill.items[k].medicine_id.kind = "text" \/ bill.items[k].qty.kind = "text"

\* the entry names no medicine of the catalog, or asks for no unit, or for
\* more than the stock
BadLine(meds, it) ==
    \/ Given(it.medicine_id) \notin IdsOf(meds)
    \/ Given(it.qty) <= 0
    \/ \E i \in 1..Len(meds) :
          meds[i].id = Given(it.medicine_id) /\ Given(it.qty) > meds[i].stock_qty

\* C26: post_dispense is all-or-nothing on validation: when a line of the
\* bill names an unknown medicine, has qty <= 0 or has qty above the current
\* stock_qty of its medicine, or when the items list is empty or unparsable,
\* no stock_qty changes, no Dispense row is created and the patient's status
\* stays as it was.
RejectedBillChangesNothing ==
    [][(RequestStep /\ last'.op \in DispenseOps /\
        (\/ Unparsable(last'.items_json)
         \/ Objects(last'.items_json) = {}
         \/ \E k \in Objects(last'.items_json) :
               BadLine(medicines, last'.items_json.items[k]))) =>
          /\ medicines' = medicines
          /\ dispenses' = dispenses
          /\ patient_status' = patient_status]_vars

\* a bill of a good line and a line above the stock was turned down, a bill
\* before it having been committed
RejectedBillChangesNothing_Witness ==
    /\ last.op = "post_dispense_err"
    /\ last.items_json = Json(<<Item(Num(1), Num(1)), Item(Num(2), Num(5))>>)
    /\ Len(medicines) = 2
    /\ medicines[1].stock_qty = InitStock - 1
    /\ medicines[2].stock_qty = InitStock
    /\ patient_status = "dispensed"
    /\ nreq = 2

\* the units of a medicine on the lines of a bill
TotalQty(items, id) ==
    LET F[k \in 0..Len(items)] ==
            IF k = 0 THEN 0
            ELSE F[k - 1] + (IF items[k].medicine_id = id THEN items[k].qty ELSE 0)
    IN F[Len(items)]

\* C27: after every successful post_dispense the stock_qty of each medicine is
\* its stock before the call minus the total qty of the lines of the bill that
\* name it, bills with several lines for one medicine included; one Dispense
\* row holding all the lines is created; medicines not on the bill keep their stock.
DispenseSubtractsBillTotals ==
    [][(RequestStep /\ last'.op = "post_dispense" /\ last'.status = 302) =>
          /\ Len(medicines') = Len(medicines)
          /\ \A i \in 1..Len(medicines) :
                medicines'[i].stock_qty =
                    medicines[i].stock_qty - TotalQty(last'.rows, medicines[i].id)
          /\ Len(dispenses') = Len(dispenses) + 1
          /\ dispenses'[Len(dispenses')].items = last'.rows]_vars

\* the last request handled was a call of inventory_sync
Synced == last.op = "inventory_sync" /\ last.status = 200

\* C28: inventory_sync leaves the stock_qty of every medicine with a
\* non-negative stock as it was, whatever the dispense history, sets a
\* negative stock_qty to 0, reports synced equal to the number of medicines,
\* and a second call changes nothing.
SyncClampsOnly ==
    Synced =>
        /\ Len(medicines) = Len(last.prior)
        /\ \A i \in 1..Len(medicines) :
              medicines[i] =
                  [last.prior[i] EXCEPT
                      !.stock_qty = IF last.prior[i].stock_qty < 0 THEN 0
                                    ELSE last.prior[i].stock_qty]
        /\ last.summary.total = Len(last.prior)
        /\ last.retry => medicines = last.prior

\* a second call after one that raised a negative stock to 0 and left alone a
\* stock with dispensed units on record
SyncClampsOnly_Witness ==
    /\ Synced
    /\ last.retry
    /\ Len(medicines) = 2
    /\ medicines[1].stock_qty = 0
    /\ medicines[2].stock_qty = InitStock
    /\ Len(dispenses) = 2
    /\ dispenses[1] = Dispense(1, 2, <<>>)
    /\ dispenses[2] = Dispense(2, 5, <<>>)
    /\ last.summary.total = 2

SendOps == {"send_otp", "send_patient_otp"}

VerifyOps == {"verify_otp", "verify_patient_otp"}

\* the request just handled was a verify that succeeded
VerifySucceeded(r) == r.op \in VerifyOps /\ r.status \in {200, 303} /\ r.error = ""

\* the store holds an OTP for the key of the request, and the clock is past it
Stored(store, r) == r.key \in DOMAIN store

PastExpiry(store, r, t) == Stored(store, r) /\ t > store[r.key].expiry

\* every entry of the store but the one of the request's key is left as it was
OthersKept(before, after, r) ==
    /\ DOMAIN after \ {r.key} = DOMAIN before \ {r.key}
    /\ \A k \in DOMAIN before \ {r.key} : after[k] = before[k]

\* C29: the OTPs of the two portals are single-use and time-limited. A verify
\* succeeds only if an OTP was sent for its key, the clock is not past the
\* expiry set 5 minutes after the send, and the typed code is the stored one;
\* a successful verify and a verify past the expiry remove the entry; a send
\* replaces the entry of its key; a wrong code leaves the store as it was.
OtpSingleUseTimeLimited ==
    [][\A portal \in Portals :
         (RequestStep /\ last'.portal = portal) =>
            /\ VerifySucceeded(last') =>
                  /\ Stored(otp_store[portal], last')
                  /\ now <= otp_store[portal][last'.key].expiry
                  /\ otp_store[portal][last'.key].code = Unblanked(last'.otp)
            /\ (VerifySucceeded(last') \/
                (last'.op \in VerifyOps /\ last'.status # 404 /\
                 PastExpiry(otp_store[portal], last', now))) =>
                  ~Stored(otp_store'[portal], last')
            /\ (last'.op \in VerifyOps /\ Stored(otp_store[portal], last') /\
                ~PastExpiry(otp_store[portal], last', now) /\
                otp_store[portal][last'.key].code # Unblanked(last'.otp)) =>
                  /\ ~VerifySucceeded(last')
                  /\ otp_store' = otp_store
            /\ (last'.op \in SendOps /\ last'.status = 200) =>
                  /\ Stored(otp_store'[portal], last')
                  /\ otp_store'[portal][last'.key] =
                        [code |-> last'.otp, expiry |-> now + OtpValidity]
            /\ (last'.op \in SendOps \cup VerifyOps) =>
                  /\ OthersKept(otp_store[portal], otp_store'[portal], last')
                  /\ \A other \in Portals \ {portal} : otp_store'[other] = otp_store[other]]_vars

\* the third request was a verify on the patient portal that succeeded at the
\* last minute of the validity, with blanks around the code; the entry is gone
OtpSingleUseTimeLimited_Witness ==
    /\ last.op = "verify_patient_otp"
    /\ VerifySucceeded(last)
    /\ last.otp = <<" ", "1", "1", "1">>
    /\ now = OtpValidity
    /\ nreq = 3
    /\ ~Stored(otp_store["patients"], last)
    /\ DOMAIN otp_store["reception"] # {}

\* the statuses that give a doctor access
Approved == {"approved", "active", "enabled"}

\* the doctor a cookie names has one of the statuses that give access
CookieApproved(docs, cookie) ==
    \E i \in 1..Len(docs) : docs[i].id = cookie /\ docs[i].status \in Approved

\* the request just handled let the doctor in: a login that set the cookie, a
\* page served, a prescription saved
LetIn(r) ==
    \/ r.op = "login_submit" /\ r.status = 302
    \/ r.op = "doctor_dashboard" /\ r.status = 200
    \/ r.op = "save_prescription" /\ r.error \in {"", "no patient"}

\* C30: a doctor account is created with status pending and gains access only
\* through the approval route: a login, a page behind _require_doctor and the
\* saving of a prescription succeed only while the current status of the
\* doctor is approved, active or enabled, so a doctor never approved, or
\* rejected after a login, saves no prescription.
DoctorAccessNeedsApproval ==
    [][RequestStep =>
          /\ \A i \in (Len(doctors) + 1)..Len(doctors') : doctors'[i].status = "pending"
          /\ \A i \in 1..Len(doctors) :
                (doctors'[i].status \in Approved /\ doctors[i].status \notin Approved) =>
                    last'.op = "approve_doctor" /\ last'.cookie = doctors[i].id
          /\ LetIn(last') => CookieApproved(doctors, last'.cookie)
          /\ prescriptions' # prescriptions =>
                /\ last'.op = "save_prescription"
                /\ CookieApproved(doctors, last'.cookie)
                /\ prescriptions' = Append(prescriptions, last'.cookie)]_vars

\* the doctor who saved a prescription while approved was rejected since, and
\* the request with the same cookie is sent back to the login page
DoctorAccessNeedsApproval_Witness ==
    /\ last.op = "save_prescription"
    /\ last.error = "login"
    /\ last.cookie = 1
    /\ Len(doctors) = 1
    /\ doctors[1].status = "rejected"
    /\ prescriptions = <<1>>
    /\ nreq = 5

====
